---- MODULE Spec2Model ----
(***************************************************************************)
(* custom-literals: suffix accessors patched onto builtin types.           *)
(*                                                                         *)
(* The state is the module-level registry _HOOKED_INSTANCES, the attribute *)
(* tables (__dict__) of the patched builtin types and of the metatype      *)
(* `type`, and the position of one `literally` generator.  `last` records  *)
(* what the most recent call returned or raised, `environ` the value of    *)
(* CUSTOM_LITERALS_BACKEND the process was started with.                   *)
(***************************************************************************)
EXTENDS Integers, Sequences, FiniteSets, TLC

VARIABLES registry, typeDict, scope, last, environ

vars == <<registry, typeDict, scope, last, environ>>

----------------------------------------------------------------------------
(* Bounds of the model *)

\* most suffixes passed to one literally(...) call
MaxSuffixes == 2
\* most names recorded in the registry at one time
MaxHooks == 2

----------------------------------------------------------------------------
(* The builtin types and names the model ranges over *)

\* ALLOWED_TARGET_TYPES: int stands for the plain types, bool is its
\* subclass, NoneType is the singleton that needs the metatype hack, dict
\* stands for the collection types, whose literals are built at run time
ALLOWED_TARGET_TYPES == {"bool", "int", "NoneType", "dict"}

\* the metatype `type`, patched by _hook_literal when cls is NoneType
MetaType == "type"

PatchedTypes == ALLOWED_TARGET_TYPES \cup {MetaType}

\* type(obj).__mro__ without `object` (object defines none of Names)
Mro(T) == IF T = "bool" THEN <<"bool", "int">> ELSE <<T>>

\* suffix names: "s" is free everywhere, "real" is a native attribute in
\* int.__dict__ (inherited by bool)
Names == {"s", "real"}

\* the names an attribute table holds: the suffix names and "mro", a method
\* defined in type.__dict__ and in the __dict__ of no allow-listed type
AllNames == Names \cup {"mro"}

\* a builtin class outside ALLOWED_TARGET_TYPES that defines none of AllNames
OutsideType == "range"

\* the classes an attribute is looked up on
ClassTypes == ALLOWED_TARGET_TYPES \cup {OutsideType}

\* transforms handed to the front-ends
Fns == {"f", "g"}

\* values of the CUSTOM_LITERALS_BACKEND environment variable
EnvValues == {"unset", "bogus"}

_DEFAULT_BACKEND == "forbiddenfruit"

\* opcode executed just before the attribute access in the calling frame
_ALLOWED_BYTECODE_OPS ==
    {"LOAD_CONST", "BUILD_TUPLE", "BUILD_LIST", "BUILD_SET", "BUILD_MAP",
     "FORMAT_VALUE", "LIST_TO_TUPLE", "LIST_EXTEND", "MAP_UPDATE",
     "SET_UPDATE", "DICT_UPDATE"}

\* call sites a read is made from, named by the opcode executed just
\* before the attribute load: a constant, a local variable, a call result,
\* a dict display, a dict display with two or more constant keys, an
\* attribute of another object
SiteOps ==
    {"LOAD_CONST", "LOAD_FAST", "CALL_FUNCTION", "BUILD_MAP",
     "BUILD_CONST_KEY_MAP", "LOAD_ATTR"}

\* the sites at which a value of type T is written as a literal
LiteralSites(T) ==
    IF T = "dict" THEN {"BUILD_MAP", "BUILD_CONST_KEY_MAP"} ELSE {"LOAD_CONST"}

\* the sites at which the value was computed before the access: held in a
\* variable, or returned by a call
ComputedSites == {"LOAD_FAST", "CALL_FUNCTION"}

----------------------------------------------------------------------------
(* Entries of a type's attribute table *)

Absent == [kind |-> "absent", type |-> "-", fn |-> "-", name |-> "-", strict |-> FALSE]

Native == [kind |-> "native", type |-> "-", fn |-> "-", name |-> "-", strict |-> FALSE]

\* _LiteralDescriptor.__init__, the assignments after the two checks
LiteralDescriptor(type, fn, name, strict) ==
    [kind |-> "literal", type |-> type, fn |-> fn, name |-> name, strict |-> strict]

\* _NoneTypeDescriptorHack.__init__
NoneTypeDescriptorHack(name) ==
    [kind |-> "hack", type |-> "-", fn |-> "-", name |-> name, strict |-> FALSE]

\* the attribute tables of the builtin types before any hook
NativeDict ==
    [T \in PatchedTypes |->
        [n \in AllNames |->
            IF (T = "int" /\ n = "real") \/ (T = MetaType /\ n = "mro")
            THEN Native ELSE Absent]]

----------------------------------------------------------------------------
(* Helpers on sequences *)

Contains(seq, x) == \E i \in 1..Len(seq) : seq[i] = x

Count(seq, x) == Cardinality({i \in 1..Len(seq) : seq[i] = x})

\* list.remove: drops the first occurrence of x
RemoveFirst(seq, x) ==
    LET i == CHOOSE j \in 1..Len(seq) :
                 seq[j] = x /\ \A k \in 1..(j - 1) : seq[k] # x
    IN  [k \in 1..(Len(seq) - 1) |-> IF k < i THEN seq[k] ELSE seq[k + 1]]

RECURSIVE SumLen(_, _)
SumLen(reg, S) ==
    IF S = {} THEN 0
    ELSE LET T == CHOOSE x \in S : TRUE
         IN  Len(reg[T]) + SumLen(reg, S \ {T})

TotalHooks(reg) == SumLen(reg, ALLOWED_TARGET_TYPES)

----------------------------------------------------------------------------
(* What a call hands back: the registry and attribute tables it leaves     *)
(* behind, and the exception it raised ("none" when it returned)           *)

Returned(reg, dict) ==
    [reg |-> reg, dict |-> dict, exc |-> "none", msg |-> "-", T |-> "-", n |-> "-"]

Raised(reg, dict, exc, msg, T, n) ==
    [reg |-> reg, dict |-> dict, exc |-> exc, msg |-> msg, T |-> T, n |-> n]

----------------------------------------------------------------------------
(* Backend selection and the patching backend *)

\* _get_backend never consulting the environment
_get_backend_IgnoresEnv(env) == _DEFAULT_BACKEND

_get_backend(env) == IF env = "unset" THEN _DEFAULT_BACKEND ELSE env

\* _select_hook_backend / _select_unhook_backend return a function only
\* for "forbiddenfruit" and raise ValueError otherwise
_select_hook_backend(backend) == backend = "forbiddenfruit"

_select_unhook_backend(backend) == backend = "forbiddenfruit"

\* forbiddenfruit.curse(klass, attr, value): klass.__dict__[attr] = value
curse(dict, klass, attr, value) == [dict EXCEPT ![klass][attr] = value]

\* forbiddenfruit.reverse(klass, attr): del klass.__dict__[attr]
reverse(dict, klass, attr) == [dict EXCEPT ![klass][attr] = Absent]

----------------------------------------------------------------------------
(* Registry and hook installation *)

\* the checks without the test against _HOOKED_INSTANCES
DescriptorCheck_NoDuplicateTest(reg, dict, type, name) ==
    IF dict[type][name].kind # "absent" THEN "name already defined" ELSE "ok"

\* the checks without the test against type.__dict__
DescriptorCheck_NoCollisionTest(reg, dict, type, name) ==
    IF Contains(reg[type], name) THEN "already defined literal" ELSE "ok"

\* _LiteralDescriptor.__init__: the two checks made before a descriptor exists
DescriptorCheck(reg, dict, type, name) ==
    IF Contains(reg[type], name) THEN "already defined literal"
    ELSE IF dict[type][name].kind # "absent" THEN "name already defined"
    ELSE "ok"

\* _hook_literal without the append to _HOOKED_INSTANCES
_hook_literal_NoAppend(reg, dict, cls, name, descriptor, backend) ==
    IF ~_select_hook_backend(backend)
    THEN Raised(reg, dict, "ValueError", "unsupported backend", cls, name)
    ELSE LET dict1 == IF cls = "NoneType"
                      THEN curse(dict, MetaType, name, NoneTypeDescriptorHack(name))
                      ELSE dict
         IN  Returned(reg, curse(dict1, cls, name, descriptor))

_hook_literal(reg, dict, cls, name, descriptor, backend) ==
    LET reg1 == [reg EXCEPT ![cls] = Append(@, name)]
    IN  IF ~_select_hook_backend(backend)
        THEN Raised(reg1, dict, "ValueError", "unsupported backend", cls, name)
        ELSE LET dict1 == IF cls = "NoneType"
                          THEN curse(dict, MetaType, name, NoneTypeDescriptorHack(name))
                          ELSE dict
             IN  Returned(reg1, curse(dict1, cls, name, descriptor))

\* _unhook_literal without the final _HOOKED_INSTANCES[cls].remove(name)
_unhook_literal_NoRemove(reg, dict, cls, name, backend) ==
    IF ~_select_unhook_backend(backend)
    THEN Raised(reg, dict, "ValueError", "unsupported backend", cls, name)
    ELSE IF dict[cls][name].kind = "absent"
    THEN Raised(reg, dict, "KeyError", "reverse", cls, name)
    ELSE LET dict1 == reverse(dict, cls, name)
         IN  Returned(reg, IF cls = "NoneType" THEN reverse(dict1, MetaType, name)
                           ELSE dict1)

\* _unhook_literal emptying the list of cls instead of removing name
_unhook_literal_ClearsType(reg, dict, cls, name, backend) ==
    IF ~_select_unhook_backend(backend)
    THEN Raised(reg, dict, "ValueError", "unsupported backend", cls, name)
    ELSE IF dict[cls][name].kind = "absent"
    THEN Raised(reg, dict, "KeyError", "reverse", cls, name)
    ELSE LET dict1 == reverse(dict, cls, name)
         IN  Returned([reg EXCEPT ![cls] = <<>>],
                      IF cls = "NoneType" THEN reverse(dict1, MetaType, name)
                      ELSE dict1)

_unhook_literal(reg, dict, cls, name, backend) ==
    IF ~_select_unhook_backend(backend)
    THEN Raised(reg, dict, "ValueError", "unsupported backend", cls, name)
    ELSE IF dict[cls][name].kind = "absent"
    THEN Raised(reg, dict, "KeyError", "reverse", cls, name)
    ELSE LET dict1 == reverse(dict, cls, name)
         IN  IF cls = "NoneType" /\ dict1[MetaType][name].kind = "absent"
             THEN Raised(reg, dict1, "KeyError", "reverse", cls, name)
             ELSE LET dict2 == IF cls = "NoneType"
                               THEN reverse(dict1, MetaType, name)
                               ELSE dict1
                  IN  IF ~Contains(reg[cls], name)
                      THEN Raised(reg, dict2, "ValueError", "list.remove", cls, name)
                      ELSE Returned([reg EXCEPT ![cls] = RemoveFirst(@, name)], dict2)

\* is_hooked looking the name up under every type
is_hooked_AnyType(reg, T, name) ==
    \E U \in ALLOWED_TARGET_TYPES : Contains(reg[U], name)

\* is_hooked(target, name)
is_hooked(reg, T, name) == Contains(reg[T], name)

----------------------------------------------------------------------------
(* The loops of the front-ends: for each target, for each suffix *)

\* the (type, name, fn) triples in the order the nested loops visit them
Pairs(targets, sufs) ==
    [i \in 1..(Len(targets) * Len(sufs)) |->
        [type |-> targets[((i - 1) \div Len(sufs)) + 1],
         name |-> sufs[((i - 1) % Len(sufs)) + 1].name,
         fn   |-> sufs[((i - 1) % Len(sufs)) + 1].fn]]

\* the body of the hooking loops of literal.inner, literals.inner and
\* literally: build the descriptor, hook it, stop at the first exception
RECURSIVE HookPairs(_, _, _, _, _, _)
HookPairs(reg, dict, pairs, i, strict, env) ==
    IF i > Len(pairs) THEN Returned(reg, dict)
    ELSE LET T == pairs[i].type
             name == pairs[i].name
             chk == DescriptorCheck(reg, dict, T, name)
         IN  IF chk # "ok"
             THEN Raised(reg, dict, "AttributeError", chk, T, name)
             ELSE LET r == _hook_literal(reg, dict, T, name,
                                         LiteralDescriptor(T, pairs[i].fn, name, strict),
                                         _get_backend(env))
                  IN  IF r.exc # "none" THEN r
                      ELSE HookPairs(r.reg, r.dict, pairs, i + 1, strict, env)

\* the unhooking loop of literally, after the yield
RECURSIVE UnhookPairs(_, _, _, _, _)
UnhookPairs(reg, dict, pairs, i, env) ==
    IF i > Len(pairs) THEN Returned(reg, dict)
    ELSE LET r == _unhook_literal(reg, dict, pairs[i].type, pairs[i].name,
                                  _get_backend(env))
         IN  IF r.exc # "none" THEN r
             ELSE UnhookPairs(r.reg, r.dict, pairs, i + 1, env)

----------------------------------------------------------------------------
(* Attribute access on a value *)

\* isinstance(obj, owner) for an obj of exact type objType
IsInstance(objType, owner) == Contains(Mro(objType), owner)

\* a lookup that walks type(obj).__mro__ from the base class down
Lookup_BaseFirst(dict, T, name) ==
    LET mro == Mro(T)
        hits == {i \in 1..Len(mro) : dict[mro[i]][name].kind # "absent"}
    IN  IF hits = {} THEN Absent
        ELSE dict[mro[CHOOSE i \in hits : \A j \in hits : i >= j]][name]

\* the first entry for name along type(obj).__mro__, as
\* object.__getattribute__ finds it
Lookup(dict, T, name) ==
    LET mro == Mro(T)
        hits == {i \in 1..Len(mro) : dict[mro[i]][name].kind # "absent"}
    IN  IF hits = {} THEN Absent
        ELSE dict[mro[CHOOSE i \in hits : \A j \in hits : i <= j]][name]

Outcome(exc, msg, value) == [exc |-> exc, msg |-> msg, value |-> value]

\* __get__ without the exact-type test
Descriptor__get__NoTypeTest(self, objType, owner, site) ==
    IF ~IsInstance(objType, owner) THEN Outcome("none", "-", "None")
    ELSE IF self.strict /\ site \notin _ALLOWED_BYTECODE_OPS
    THEN Outcome("TypeError", "strict", "-")
    ELSE Outcome("none", "-", self.fn)

\* __get__ testing isinstance(obj, self.type) in place of type(obj) is self.type
Descriptor__get__Isinstance(self, objType, owner, site) ==
    IF ~IsInstance(objType, owner) THEN Outcome("none", "-", "None")
    ELSE IF ~IsInstance(objType, self.type)
    THEN Outcome("AttributeError", "not defined", "-")
    ELSE IF self.strict /\ site \notin _ALLOWED_BYTECODE_OPS
    THEN Outcome("TypeError", "strict", "-")
    ELSE Outcome("none", "-", self.fn)

\* __get__ making the call-site test whether or not the suffix is strict
Descriptor__get__AlwaysStrict(self, objType, owner, site) ==
    IF ~IsInstance(objType, owner) THEN Outcome("none", "-", "None")
    ELSE IF objType # self.type
    THEN Outcome("AttributeError", "not defined", "-")
    ELSE IF site \notin _ALLOWED_BYTECODE_OPS
    THEN Outcome("TypeError", "strict", "-")
    ELSE Outcome("none", "-", self.fn)

\* __get__ taking a constant load for the only literal construction
Descriptor__get__LoadConstOnly(self, objType, owner, site) ==
    IF ~IsInstance(objType, owner) THEN Outcome("none", "-", "None")
    ELSE IF objType # self.type
    THEN Outcome("AttributeError", "not defined", "-")
    ELSE IF self.strict /\ site # "LOAD_CONST"
    THEN Outcome("TypeError", "strict", "-")
    ELSE Outcome("none", "-", self.fn)

\* __get__ without the test that tells a lookup on the class from a read
\* on a value
Descriptor__get__NoInstanceTest(self, objType, owner, site) ==
    IF objType # self.type
    THEN Outcome("AttributeError", "not defined", "-")
    ELSE IF self.strict /\ site \notin _ALLOWED_BYTECODE_OPS
    THEN Outcome("TypeError", "strict", "-")
    ELSE Outcome("none", "-", self.fn)

\* _LiteralDescriptor.__get__(self, obj, owner); site is the opcode at
\* frame.f_lasti - 2 of the calling frame; the value fn stands for fn(obj)
Descriptor__get__(self, objType, owner, site) ==
    IF ~IsInstance(objType, owner) THEN Outcome("none", "-", "None")
    ELSE IF objType # self.type
    THEN Outcome("AttributeError", "not defined", "-")
    ELSE IF self.strict /\ site \notin _ALLOWED_BYTECODE_OPS
    THEN Outcome("TypeError", "strict", "-")
    ELSE Outcome("none", "-", self.fn)

\* reading attribute name on a value whose exact type is T
ReadAttr(dict, T, name, site) ==
    LET e == Lookup(dict, T, name)
    IN  IF e.kind = "literal" THEN Descriptor__get__(e, T, T, site)
        ELSE IF e.kind = "native" THEN Outcome("none", "-", "native")
        ELSE Outcome("AttributeError", "no attribute", "-")

\* a __set__ that returns instead of raising
Descriptor__set__Accepts(self) == Outcome("none", "-", "-")

\* _LiteralDescriptor.__set__(self, _obj, _value)
Descriptor__set__(self) == Outcome("AttributeError", "read-only", "-")

\* obj.name = value on a value whose exact type is T: the data descriptor
\* found along the MRO decides; the builtin values have no __dict__ and
\* their native attributes are read-only
WriteAttr(dict, T, name) ==
    LET e == Lookup(dict, T, name)
    IN  IF e.kind = "literal" THEN Descriptor__set__(e)
        ELSE IF e.kind = "native" THEN Outcome("AttributeError", "not writable", "-")
        ELSE Outcome("AttributeError", "no attribute", "-")

\* a __get__ of the auxiliary descriptor that never consults the registry
Hack__get__NoTest(reg, self, obj) == Outcome("none", "-", "None")

\* _NoneTypeDescriptorHack.__get__(self, obj, type), obj being the class
\* the attribute is read on; it falls off the end when the name is hooked
\* (_HOOKED_INSTANCES has a key for each allow-listed type and no other)
Hack__get__(reg, self, obj) ==
    IF obj \notin DOMAIN reg THEN Outcome("KeyError", "registry", "-")
    ELSE IF ~Contains(reg[obj], self.name)
    THEN Outcome("AttributeError", "hack", "-")
    ELSE Outcome("none", "-", "None")

\* the first entry for name along U.__mro__; a class outside the
\* allow-list is never patched and defines none of AllNames
ClassLookup(dict, U, name) ==
    IF U = OutsideType THEN Absent ELSE Lookup(dict, U, name)

\* reading attribute name on the class U itself (type.__getattribute__): a
\* data descriptor of the metatype comes first, then the entry along
\* U.__mro__, whose __get__ is called with obj = None, then a method of
\* the metatype
ReadClassAttr(reg, dict, U, name, site) ==
    IF dict[MetaType][name].kind = "hack"
    THEN Hack__get__(reg, dict[MetaType][name], U)
    ELSE LET e == ClassLookup(dict, U, name)
         IN  IF e.kind = "literal" THEN Descriptor__get__(e, "NoneType", U, site)
             ELSE IF e.kind = "native" THEN Outcome("none", "-", "native")
             ELSE IF dict[MetaType][name].kind = "native"
             THEN Outcome("none", "-", "native")
             ELSE Outcome("AttributeError", "no attribute", "-")

----------------------------------------------------------------------------
(* Inputs of the calls *)

\* what callers pass as a target: a type, or the None singleton
ALLOWED_TARGETS == {"bool", "int", "None", "dict"}

_to_type(target) == IF target = "None" THEN "NoneType" ELSE target

\* the *targets lists the calls are made with
TargetLists ==
    {<<"int">>, <<"bool">>, <<"None">>, <<"int", "bool">>, <<"bool", "int">>,
     <<"None", "int">>, <<"int", "int">>}

Types(targets) == [i \in 1..Len(targets) |-> _to_type(targets[i])]

Suffix(name, fn) == [name |-> name, fn |-> fn]

\* fn.__name__ of the transforms
FnName(fn) == IF fn = "f" THEN "s" ELSE "real"

\* the transforms the calls register: f as a plain suffix, g as a strict one
Transforms == {[fn |-> "f", strict |-> FALSE], [fn |-> "g", strict |-> TRUE]}

\* the suffix names of one literally call: keyword arguments, so distinct
NameLists ==
    {ns \in UNION {[1..k -> Names] : k \in 1..MaxSuffixes} :
        \A i, j \in 1..Len(ns) : i # j => ns[i] # ns[j]}

\* **fns of literally, every suffix bound to fn
Kwargs(names, fn) == [i \in 1..Len(names) |-> Suffix(names[i], fn)]

\* a class handed to literals, as dir(cls) lists it (sorted by attribute
\* name): attr is the attribute name, callable says whether getattr(cls,
\* attr) is callable, rename is the name given by @rename ("-" without it)
Member(attr, callable, rename, fn) ==
    [attr |-> attr, callable |-> callable, rename |-> rename, fn |-> fn]

\* attribute names of the model that start with "__"
DunderNames == {"__doc__", "__init__"}

\* class Foo: @rename("s") def bees(self)
RenamedClass(fn) ==
    <<Member("__doc__", FALSE, "-", "-"), Member("__init__", TRUE, "-", "-"),
      Member("bees", TRUE, "s", fn)>>

\* class Foo: label = 1; def real(self); def s(self)
PlainClass(fn) ==
    <<Member("__doc__", FALSE, "-", "-"), Member("__init__", TRUE, "-", "-"),
      Member("label", FALSE, "-", "-"), Member("real", TRUE, "-", fn),
      Member("s", TRUE, "-", fn)>>

\* class Foo: @rename("s") def __hidden(self): the class body stores the
\* member under its mangled name, which is what dir(cls) lists
MangledClass(fn) ==
    <<Member("_Foo__hidden", TRUE, "s", fn), Member("__doc__", FALSE, "-", "-"),
      Member("__init__", TRUE, "-", "-")>>

\* the name a member was declared with in the class body
DeclaredName(attr) == IF attr = "_Foo__hidden" THEN "__hidden" ELSE attr

Classes(fn) == {RenamedClass(fn), PlainClass(fn), MangledClass(fn)}

\* literals.inner: the members that get registered and the names they get
Registered(m) == m.attr \notin DunderNames /\ m.callable

ClassSuffixes(cls) ==
    LET kept == SelectSeq(cls, Registered)
    IN  [i \in 1..Len(kept) |->
            Suffix(IF kept[i].rename # "-" THEN kept[i].rename ELSE kept[i].attr,
                   kept[i].fn)]

\* the names of a list of suffixes
SuffixNames(sufs) == [i \in 1..Len(sufs) |-> sufs[i].name]

\* the pairs the unhooking loop of literally visits
ScopePairs(types, names) == Pairs(types, Kwargs(names, "-"))

----------------------------------------------------------------------------
(* The state machine *)

NoCall ==
    [op |-> "none", exc |-> "none", msg |-> "-", targets |-> <<>>, sufs |-> <<>>,
     strict |-> FALSE, T |-> "-", n |-> "-", site |-> "-", value |-> "-"]

Idle == [pc |-> "idle", types |-> <<>>, names |-> <<>>]

\* what `last` shows of a registration call: its arguments when it
\* returned, the exception otherwise
HookCall(op, r, targets, sufs, strict) ==
    IF r.exc = "none"
    THEN [NoCall EXCEPT !.op = op, !.targets = targets, !.sufs = sufs,
                        !.strict = strict]
    ELSE [NoCall EXCEPT !.op = op, !.exc = r.exc, !.msg = r.msg]

Init ==
    /\ registry = [T \in ALLOWED_TARGET_TYPES |-> <<>>]
    /\ typeDict = NativeDict
    /\ scope = Idle
    /\ last = NoCall
    /\ environ \in EnvValues

\* literal(*targets, name=name, strict=strict)(fn); the body of a with
\* statement is taken to make unliteral calls only
Literal(targets, name, fn, strict) ==
    LET real_name == IF name = "None" THEN FnName(fn) ELSE name
        sufs == <<Suffix(real_name, fn)>>
        r == HookPairs(registry, typeDict, Pairs(Types(targets), sufs), 1, strict, environ)
    IN  /\ scope.pc = "idle"
        /\ TotalHooks(r.reg) <= MaxHooks
        /\ registry' = r.reg
        /\ typeDict' = r.dict
        /\ last' = HookCall("literal", r, targets, sufs, strict)
        /\ UNCHANGED <<scope, environ>>

\* literals(*targets, strict=strict)(cls)
Literals(targets, cls, strict) ==
    LET sufs == ClassSuffixes(cls)
        r == HookPairs(registry, typeDict, Pairs(Types(targets), sufs), 1, strict, environ)
    IN  /\ scope.pc = "idle"
        /\ TotalHooks(r.reg) <= MaxHooks
        /\ registry' = r.reg
        /\ typeDict' = r.dict
        /\ last' = HookCall("literals", r, targets, sufs, strict)
        /\ UNCHANGED <<scope, environ>>

\* unliteral without the membership test on _HOOKED_INSTANCES
Unliteral_NoTest(target, name) ==
    LET type == _to_type(target)
        r == _unhook_literal(registry, typeDict, type, name, _get_backend(environ))
    IN  /\ registry' = r.reg
        /\ typeDict' = r.dict
        /\ last' = IF r.exc = "none"
                   THEN [NoCall EXCEPT !.op = "unliteral", !.T = type, !.n = name]
                   ELSE [NoCall EXCEPT !.op = "unliteral", !.exc = r.exc,
                                       !.msg = r.msg]
        /\ UNCHANGED <<scope, environ>>

\* the body of unliteral(target, name)
unliteral(reg, dict, target, name, env) ==
    LET type == _to_type(target)
    IN  IF ~Contains(reg[type], name)
        THEN Raised(reg, dict, "AttributeError", "not defined", type, name)
        ELSE _unhook_literal(reg, dict, type, name, _get_backend(env))

\* unliteral(target, name)
Unliteral(target, name) ==
    LET type == _to_type(target)
        r == unliteral(registry, typeDict, target, name, environ)
    IN  /\ registry' = r.reg
        /\ typeDict' = r.dict
        /\ last' = IF r.exc = "none"
                   THEN [NoCall EXCEPT !.op = "unliteral", !.T = type, !.n = name]
                   ELSE [NoCall EXCEPT !.op = "unliteral", !.exc = r.exc,
                                       !.msg = r.msg]
        /\ UNCHANGED <<scope, environ>>

\* with literally(*targets, strict=strict, **fns): the code up to the yield
LiterallyEnter(targets, fns, strict) ==
    LET types == Types(targets)
        r == HookPairs(registry, typeDict, Pairs(types, fns), 1, strict, environ)
    IN  /\ scope.pc = "idle"
        /\ TotalHooks(r.reg) <= MaxHooks
        /\ registry' = r.reg
        /\ typeDict' = r.dict
        /\ last' = HookCall("literally", r, targets, fns, strict)
        /\ scope' = IF r.exc = "none"
                    THEN [pc |-> "body", types |-> types, names |-> SuffixNames(fns)]
                    ELSE Idle
        /\ UNCHANGED environ

\* the body of the with statement ends normally: the code after the yield
LiterallyExit ==
    LET r == UnhookPairs(registry, typeDict, ScopePairs(scope.types, scope.names), 1, environ)
    IN  /\ scope.pc = "body"
        /\ registry' = r.reg
        /\ typeDict' = r.dict
        /\ last' = [NoCall EXCEPT !.op = "exit", !.exc = r.exc, !.msg = r.msg]
        /\ scope' = Idle
        /\ UNCHANGED environ

\* the body of the with statement raises: the exception is thrown into the
\* generator at the yield, which has no try/finally around it
LiterallyRaise ==
    /\ scope.pc = "body"
    /\ last' = [NoCall EXCEPT !.op = "raise", !.exc = "BodyError"]
    /\ scope' = Idle
    /\ UNCHANGED <<registry, typeDict, environ>>

Next ==
    \/ \E targets \in TargetLists, name \in Names \cup {"None"},
          tr \in Transforms :
          Literal(targets, name, tr.fn, tr.strict)
    \/ \E targets \in TargetLists, tr \in Transforms :
          \E cls \in Classes(tr.fn) : Literals(targets, cls, tr.strict)
    \/ \E target \in ALLOWED_TARGETS, name \in Names :
          Unliteral(target, name)
    \/ \E targets \in TargetLists, names \in NameLists, tr \in Transforms :
          LiterallyEnter(targets, Kwargs(names, tr.fn), tr.strict)
    \/ LiterallyExit
    \/ LiterallyRaise

Spec == Init /\ [][Next]_vars

----------------------------------------------------------------------------
(* Access to the suffixes: single-target registrations, followed by reads, *)
(* writes and is_hooked queries                                            *)

\* value.name, read at a call site
Read(T, name, site) ==
    LET r == ReadAttr(typeDict, T, name, site)
    IN  /\ last' = [NoCall EXCEPT !.op = "read", !.exc = r.exc, !.msg = r.msg,
                                  !.value = r.value]
        /\ UNCHANGED <<registry, typeDict, scope, environ>>

\* value.name = something
Write(T, name) ==
    LET r == WriteAttr(typeDict, T, name)
    IN  /\ last' = [NoCall EXCEPT !.op = "write", !.exc = r.exc, !.msg = r.msg]
        /\ UNCHANGED <<registry, typeDict, scope, environ>>

\* is_hooked(target, name)
IsHooked(target, name) ==
    /\ last' = [NoCall EXCEPT !.op = "is_hooked",
                              !.value = IF is_hooked(registry, _to_type(target), name)
                                        THEN "True" ELSE "False"]
    /\ UNCHANGED <<registry, typeDict, scope, environ>>

NextAccess ==
    \/ \E target \in ALLOWED_TARGETS, name \in Names, tr \in Transforms :
          Literal(<<target>>, name, tr.fn, tr.strict)
    \/ \E target \in ALLOWED_TARGETS, name \in Names : Unliteral(target, name)
    \/ \E T \in ALLOWED_TARGET_TYPES, name \in Names, site \in SiteOps :
          Read(T, name, site)
    \/ \E T \in ALLOWED_TARGET_TYPES, name \in Names : Write(T, name)
    \/ \E target \in ALLOWED_TARGETS, name \in Names : IsHooked(target, name)

SpecAccess == Init /\ [][NextAccess]_vars

----------------------------------------------------------------------------
(* Lookups on the classes themselves, hasattr(cls, name), any name an     *)
(* attribute table holds being open to registration                       *)

\* getattr(U, name), as hasattr(U, name) makes it
ReadClass(U, name, site) ==
    LET r == ReadClassAttr(registry, typeDict, U, name, site)
    IN  /\ last' = [NoCall EXCEPT !.op = "readclass", !.exc = r.exc, !.msg = r.msg,
                                  !.T = U, !.n = name, !.value = r.value]
        /\ UNCHANGED <<registry, typeDict, scope, environ>>

\* the targets registered before the lookups: a plain type, its subclass
\* and the None singleton
ClassTargets == {"bool", "int", "None"}

NextClass ==
    \/ \E target \in ClassTargets, name \in AllNames, tr \in Transforms :
          Literal(<<target>>, name, tr.fn, tr.strict)
    \/ \E target \in ClassTargets, name \in AllNames : Unliteral(target, name)
    \/ \E U \in ClassTypes, name \in AllNames, site \in SiteOps :
          ReadClass(U, name, site)

SpecClass == Init /\ [][NextClass]_vars

----------------------------------------------------------------------------
(* Vocabulary of the properties *)

HookOps == {"literal", "literals", "literally"}

\* the last call was a registration call that returned
HookReturned == last.op \in HookOps /\ last.exc = "none"

\* the (type, name, fn) triples of the registration call shown by l
CallPairs(l) == Pairs(Types(l.targets), l.sufs)

\* name is recorded for T and a suffix descriptor sits in T.__dict__
Installed(T, name) ==
    is_hooked(registry, T, name) /\ typeDict[T][name].kind = "literal"

\* name is neither recorded for T nor present in T.__dict__
Untouched(T, name) ==
    ~is_hooked(registry, T, name) /\ typeDict[T][name].kind = "absent"

\* T has a native attribute name, its own or an inherited one
HasNativeAttr(T, name) == Lookup(NativeDict, T, name).kind = "native"

Raises(r, msg) == r.exc = "AttributeError" /\ r.msg = msg

----------------------------------------------------------------------------
(* C1 *)

\* C1 as stated: right after a registration call (literal, literals,
\* literally) returns, every (T, n) it covers is hooked, and reading n on a
\* value of exact type T from any call site invokes the registered
\* transform and returns its result.
C1_ReadFromAnySite ==
    HookReturned =>
        \A i \in DOMAIN CallPairs(last) : \A site \in SiteOps :
            LET p == CallPairs(last)[i]
            IN  /\ is_hooked(registry, p.type, p.name)
                /\ ReadAttr(typeDict, p.type, p.name, site) = Outcome("none", "-", p.fn)

\* C1 amended: the same, the read being made on a literal construction
\* when the suffix was registered strict.
C1_HookedAndReadable ==
    HookReturned =>
        \A i \in DOMAIN CallPairs(last) : \A site \in SiteOps :
            LET p == CallPairs(last)[i]
            IN  /\ is_hooked(registry, p.type, p.name)
                /\ (last.strict => site \in _ALLOWED_BYTECODE_OPS)
                     => ReadAttr(typeDict, p.type, p.name, site)
                            = Outcome("none", "-", p.fn)

\* a strict registration over two target types has returned, and a read on
\* a literal of the first type yields the transform's result
C1_Witness ==
    /\ HookReturned
    /\ last.strict
    /\ Len(last.targets) = 2
    /\ ReadAttr(typeDict, _to_type(last.targets[1]), last.sufs[1].name, "LOAD_CONST")
           = Outcome("none", "-", last.sufs[1].fn)
    /\ ReadAttr(typeDict, _to_type(last.targets[1]), last.sufs[1].name, "LOAD_FAST")
           = Outcome("TypeError", "strict", "-")

----------------------------------------------------------------------------
(* C2 *)

\* C2 as stated: after unliteral(T, n) returns, is_hooked(T, n) is false
\* and reading n on a value of type T raises AttributeError.
C2_AbsentAfterUnliteral ==
    (last.op = "unliteral" /\ last.exc = "none") =>
        /\ ~is_hooked(registry, last.T, last.n)
        /\ \A site \in SiteOps :
               ReadAttr(typeDict, last.T, last.n, site).exc = "AttributeError"

\* C2 amended: after unliteral(T, n) returns, is_hooked(T, n) is false and
\* reading n on a value of type T gives what it gave before the hook: the
\* native attribute n where T inherits one, AttributeError otherwise.
C2_AsBeforeTheHook ==
    (last.op = "unliteral" /\ last.exc = "none") =>
        /\ ~is_hooked(registry, last.T, last.n)
        /\ \A site \in SiteOps :
               LET r == ReadAttr(typeDict, last.T, last.n, site)
               IN  IF HasNativeAttr(last.T, last.n)
                   THEN r = Outcome("none", "-", "native")
                   ELSE r.exc = "AttributeError"

\* unliteral(bool, "real") has returned: the suffix that shadowed the
\* attribute inherited from int is gone and the inherited attribute is back
C2_Witness ==
    /\ last.op = "unliteral" /\ last.exc = "none"
    /\ last.T = "bool" /\ last.n = "real"
    /\ ReadAttr(typeDict, "bool", "real", "LOAD_CONST").value = "native"

----------------------------------------------------------------------------
(* C3 *)

\* C3: when the body of a literally scope raises, every (target, suffix)
\* pair of the scope is unhooked once the exception has left the scope.
C3_UnhookedAfterRaise ==
    [][last'.op = "raise" =>
          \A i \in DOMAIN ScopePairs(scope.types, scope.names) :
              LET p == ScopePairs(scope.types, scope.names)[i]
              IN  /\ ~is_hooked(registry', p.type, p.name)
                  /\ typeDict'[p.type][p.name].kind = "absent"]_vars

----------------------------------------------------------------------------
(* C4 *)

\* C4: on entry of a literally scope every suffix resolves on values of
\* every target type, and right after the body exits normally (the backend
\* being a supported one) every pair of the scope is absent again.
C4_ResolvesThenAbsent ==
    [][/\ (last'.op = "literally" /\ last'.exc = "none") =>
              \A i \in DOMAIN CallPairs(last') :
                  LET p == CallPairs(last')[i]
                  IN  /\ is_hooked(registry', p.type, p.name)
                      /\ Lookup(typeDict', p.type, p.name)
                             = LiteralDescriptor(p.type, p.fn, p.name, last'.strict)
       /\ (last'.op = "exit" /\ last'.msg # "unsupported backend") =>
              \A i \in DOMAIN ScopePairs(scope.types, scope.names) :
                  LET p == ScopePairs(scope.types, scope.names)[i]
                  IN  /\ ~is_hooked(registry', p.type, p.name)
                      /\ typeDict'[p.type][p.name].kind = "absent"]_vars

----------------------------------------------------------------------------
(* C5 *)

\* C5: a literal(T1, ..., Tk, name=n) call that fails on a duplicate suffix
\* or a name collision leaves no type newly hooked.
C5_AtomicRegistration ==
    [][(last'.op = "literal" /\ last'.exc = "AttributeError") =>
          \A T \in ALLOWED_TARGET_TYPES, n \in Names :
              is_hooked(registry', T, n) => is_hooked(registry, T, n)]_vars

----------------------------------------------------------------------------
(* C6 *)

\* C6: a registration call that reaches a (T, n) already hooked fails with
\* the duplicate-suffix AttributeError, and the registry entry and the
\* installed descriptor of every pair hooked before the call are as they
\* were.  literal(T, name=n) on a hooked (T, n) changes nothing at all, and
\* a call that returns covered no pair hooked before it.
C6_DuplicateRejected ==
    [][/\ (last'.op \in HookOps /\ last'.msg = "already defined literal") =>
              \A T \in ALLOWED_TARGET_TYPES, n \in Names :
                  is_hooked(registry, T, n) =>
                      /\ Count(registry'[T], n) = Count(registry[T], n)
                      /\ typeDict'[T][n] = typeDict[T][n]
       /\ (last'.op \in HookOps /\ last'.exc = "none") =>
              \A i \in DOMAIN CallPairs(last') :
                  ~is_hooked(registry, CallPairs(last')[i].type,
                             CallPairs(last')[i].name)
       /\ last'.op = "literal" =>
              \A target \in ALLOWED_TARGETS, name \in Names :
                  is_hooked(registry, _to_type(target), name) =>
                      \A tr \in Transforms :
                          Literal(<<target>>, name, tr.fn, tr.strict)
                              => /\ Raises(last', "already defined literal")
                                 /\ registry' = registry
                                 /\ typeDict' = typeDict]_vars

\* a registration has just failed on a duplicate while the first hook, with
\* the other transform, is still installed
C6_Witness ==
    /\ last.op = "literal"
    /\ Raises(last, "already defined literal")
    /\ registry["int"] = <<"s">>
    /\ typeDict["int"]["s"] = LiteralDescriptor("int", "g", "s", TRUE)

----------------------------------------------------------------------------
(* C7 *)

\* C7 as stated: no registration call that covers a (T, n) where n is a
\* native attribute of T (its own or inherited) returns.
C7_AnyNativeAttrCollides ==
    HookReturned =>
        \A i \in DOMAIN CallPairs(last) :
            ~HasNativeAttr(CallPairs(last)[i].type, CallPairs(last)[i].name)

\* C7 amended: for every name n defined in T's own __dict__ before any
\* hook, hooking n on T fails with the name-collision AttributeError; the
\* failed hook records nothing for (T, n) and leaves the attribute as it
\* was, and literal(T, name=n) on such a pair changes nothing at all.
C7_OwnAttrCollides ==
    [][/\ \A T \in ALLOWED_TARGET_TYPES, n \in Names :
              NativeDict[T][n] = Native =>
                  /\ ~is_hooked(registry', T, n)
                  /\ typeDict'[T][n] = Native
       /\ (last'.op \in HookOps /\ last'.exc = "none") =>
              \A i \in DOMAIN CallPairs(last') :
                  NativeDict[CallPairs(last')[i].type][CallPairs(last')[i].name]
                      = Absent
       /\ last'.op = "literal" =>
              \A target \in ALLOWED_TARGETS, name \in Names :
                  NativeDict[_to_type(target)][name] = Native =>
                      \A tr \in Transforms :
                          Literal(<<target>>, name, tr.fn, tr.strict)
                              => /\ Raises(last', "name already defined")
                                 /\ registry' = registry
                                 /\ typeDict' = typeDict]_vars

\* a registration has just failed on the collision with int.real while
\* the same name is hooked on bool, where it is only inherited
C7_Witness ==
    /\ last.op \in HookOps
    /\ Raises(last, "name already defined")
    /\ Installed("bool", "real")
    /\ typeDict["int"]["real"] = Native

----------------------------------------------------------------------------
(* C8 *)

\* C8: unliteral(T, n) for a name that is not hooked on T raises the
\* not-defined AttributeError and changes neither the registry nor any
\* attribute table; an unliteral that returns was made for a hooked name.
C8_UnknownSuffixRejected ==
    [][/\ last'.op = "unliteral" =>
              \A target \in ALLOWED_TARGETS, name \in Names :
                  (/\ ~is_hooked(registry, _to_type(target), name)
                   /\ Unliteral(target, name))
                      => /\ Raises(last', "not defined")
                         /\ registry' = registry
                         /\ typeDict' = typeDict
       /\ (last'.op = "unliteral" /\ last'.exc = "none") =>
              is_hooked(registry, last'.T, last'.n)]_vars

\* an unliteral has just failed as not defined while a hook is installed
C8_Witness ==
    /\ last.op = "unliteral"
    /\ Raises(last, "not defined")
    /\ \E T \in ALLOWED_TARGET_TYPES, n \in Names : Installed(T, n)

----------------------------------------------------------------------------
(* C9 *)

----------------------------------------------------------------------------
(* C10 *)

----------------------------------------------------------------------------
(* C11 *)

\* C11: for a suffix hooked strict on T, a read on a value written as a
\* literal at the call site invokes the transform, and a read on a value
\* held in a variable or returned by a call raises the strict-mode
\* TypeError.
C11_StrictByConstruction ==
    \A T \in ALLOWED_TARGET_TYPES, n \in Names :
        (Installed(T, n) /\ typeDict[T][n].strict) =>
            /\ \A site \in LiteralSites(T) :
                   ReadAttr(typeDict, T, n, site)
                       = Outcome("none", "-", typeDict[T][n].fn)
            /\ \A site \in ComputedSites :
                   ReadAttr(typeDict, T, n, site) = Outcome("TypeError", "strict", "-")

----------------------------------------------------------------------------
(* C12 *)

\* C12: for a suffix hooked non-strict on T, a read on a value of exact
\* type T invokes the transform and returns its result from every call
\* site, whatever opcode produced the value.
C12_NonStrictAnySite ==
    \A T \in ALLOWED_TARGET_TYPES, n \in Names :
        (Installed(T, n) /\ ~typeDict[T][n].strict) =>
            \A site \in SiteOps :
                ReadAttr(typeDict, T, n, site)
                    = Outcome("none", "-", typeDict[T][n].fn)

\* a read has just returned a transform's result while a non-strict suffix
\* on int is readable on a variable
C12_Witness ==
    /\ last.op = "read" /\ last.exc = "none" /\ last.value = "f"
    /\ Installed("int", "s") /\ ~typeDict["int"]["s"].strict
    /\ "LOAD_FAST" \notin _ALLOWED_BYTECODE_OPS
    /\ ReadAttr(typeDict, "int", "s", "LOAD_FAST") = Outcome("none", "-", "f")

----------------------------------------------------------------------------
(* C13 *)

\* U is neither one of the target types nor a subclass of one
Unrelated(U, types) ==
    \A i \in DOMAIN types : ~IsInstance(U, types[i])

\* name raises AttributeError on the values of U and on U itself
NotObservable(reg, dict, U, name) ==
    \A site \in SiteOps :
        /\ ReadAttr(dict, U, name, site).exc = "AttributeError"
        /\ ReadClassAttr(reg, dict, U, name, site).exc = "AttributeError"

----------------------------------------------------------------------------
(* C14 *)

\* what an unliteral(T, n) that returned did to (T, n) and to every other
\* (type, name): the entry of (T, n) is gone, every other entry is recorded
\* as often as before and reads as before
RemovesOnlyItsHook(T, n) ==
    /\ Count(registry'[T], n) = Count(registry[T], n) - 1
    /\ typeDict'[T][n] = Absent
    /\ \A U \in ALLOWED_TARGET_TYPES, m \in Names :
           (U # T \/ m # n) =>
               /\ Count(registry'[U], m) = Count(registry[U], m)
               /\ is_hooked(registry, U, m) =>
                      \A site \in SiteOps :
                          ReadAttr(typeDict', U, m, site)
                              = ReadAttr(typeDict, U, m, site)

\* C14 as stated: unliteral(T, n) removes only the (T, n) hook, every other
\* entry still resolves, and once n is hooked on no type it is observable
\* on no allow-listed type.
C14_OnlyThatHookThenAbsent ==
    [][(last'.op = "unliteral" /\ last'.exc = "none") =>
          /\ RemovesOnlyItsHook(last'.T, last'.n)
          /\ (\A U \in ALLOWED_TARGET_TYPES : ~is_hooked(registry', U, last'.n))
                 => \A U \in ALLOWED_TARGET_TYPES :
                        NotObservable(registry', typeDict', U, last'.n)]_vars

\* C14 amended: the same, except that once n is hooked on no type, n reads
\* on every allow-listed type, on values and on the class, as it did before
\* any hook: a native attribute where the type has or inherits one,
\* AttributeError otherwise.
C14_OnlyThatHookThenNative ==
    [][(last'.op = "unliteral" /\ last'.exc = "none") =>
          /\ RemovesOnlyItsHook(last'.T, last'.n)
          /\ (\A U \in ALLOWED_TARGET_TYPES : ~is_hooked(registry', U, last'.n))
                 => \A U \in ALLOWED_TARGET_TYPES, site \in SiteOps :
                       /\ ReadAttr(typeDict', U, last'.n, site)
                              = ReadAttr(NativeDict, U, last'.n, site)
                       /\ ReadClassAttr(registry', typeDict', U, last'.n, site)
                              = ReadClassAttr(registry', NativeDict, U, last'.n, site)]_vars

\* unliteral(int, "s") has returned while "s" is still hooked on bool and
\* still resolves there
C14_Witness ==
    /\ last.op = "unliteral" /\ last.exc = "none"
    /\ last.T = "int" /\ last.n = "s"
    /\ Installed("bool", "s")
    /\ ReadAttr(typeDict, "bool", "s", "LOAD_CONST").exc = "none"
    /\ ReadAttr(typeDict, "int", "s", "LOAD_CONST").exc = "AttributeError"

----------------------------------------------------------------------------
(* C15 *)

\* C15: right after literal(T, name=n, strict=s)(f) has returned,
\* unliteral(T, n) followed by the same literal call both return, and the
\* registry and the attribute tables (hence every read) are again what they
\* are now.
C15_RehookRestores ==
    (last.op = "literal" /\ last.exc = "none" /\ Len(last.targets) = 1) =>
        LET u == unliteral(registry, typeDict, last.targets[1],
                           last.sufs[1].name, environ)
            h == HookPairs(u.reg, u.dict, CallPairs(last), 1, last.strict, environ)
        IN  /\ u.exc = "none"
            /\ ~is_hooked(u.reg, _to_type(last.targets[1]), last.sufs[1].name)
            /\ h.exc = "none"
            /\ h.reg = registry
            /\ h.dict = typeDict

\* literal(bool, name="s") has returned while "real" was already hooked on
\* bool, so that the position of "s" in the list of bool matters
C15_Witness ==
    /\ last.op = "literal" /\ last.exc = "none"
    /\ last.targets = <<"bool">>
    /\ registry["bool"] = <<"real", "s">>
    /\ Installed("bool", "s") /\ Installed("bool", "real")

----------------------------------------------------------------------------
(* C16 *)

\* C16: in every reachable state each name is recorded at most once for
\* each type.
C16_NoDuplicateEntry ==
    \A T \in ALLOWED_TARGET_TYPES, n \in Names : Count(registry[T], n) <= 1

\* a second registration of (int, "s") has just been refused although no
\* descriptor was ever installed for it: the entry was recorded by a call
\* that failed on the backend
C16_Witness ==
    /\ last.op \in HookOps
    /\ Raises(last, "already defined literal")
    /\ environ = "bogus"
    /\ registry["int"] = <<"s">>
    /\ typeDict["int"]["s"] = Absent

----------------------------------------------------------------------------
(* C17 *)

\* a member the class decorator is to register: callable, and declared
\* with a name that does not begin with a double underscore
Eligible(m) ==
    m.callable /\ DeclaredName(m.attr) \notin DunderNames \cup {"__hidden"}

\* the suffixes the decorator is to register for each target: one per
\* eligible member, named by its rename override, else by its name
ExpectedSuffixes(cls) ==
    LET kept == SelectSeq(cls, Eligible)
    IN  [i \in 1..Len(kept) |->
            Suffix(IF kept[i].rename # "-" THEN kept[i].rename ELSE kept[i].attr,
                   kept[i].fn)]

\* C17: a literals(*targets)(cls) call that returns has registered, for
\* every target type, exactly one suffix per callable member of cls not
\* declared with a leading double underscore, named by the member's rename
\* override if it has one and by the member name otherwise, and bound to
\* that member.
C17_OnePerPublicMember ==
    [][last'.op = "literals" =>
          \A targets \in TargetLists, tr \in Transforms :
              \A cls \in Classes(tr.fn) :
                  (Literals(targets, cls, tr.strict) /\ last'.exc = "none") =>
                      \A i \in DOMAIN targets :
                          LET T == _to_type(targets[i])
                              exp == ExpectedSuffixes(cls)
                          IN  /\ registry'[T] = registry[T] \o SuffixNames(exp)
                              /\ \A j \in DOMAIN exp :
                                     typeDict'[T][exp[j].name]
                                         = LiteralDescriptor(T, exp[j].fn, exp[j].name,
                                                             tr.strict)]_vars

----------------------------------------------------------------------------
(* C18 *)

\* C18: an assignment to a name on a value of a type on which, or on a
\* base of which, the name is hooked raises AttributeError and changes
\* neither the registry nor any attribute table.
C18_WriteRejected ==
    [][last'.op = "write" =>
          \A T \in ALLOWED_TARGET_TYPES, n \in Names :
              (/\ Write(T, n)
               /\ \E U \in ALLOWED_TARGET_TYPES : IsInstance(T, U) /\ Installed(U, n))
                  => /\ last'.exc = "AttributeError"
                     /\ registry' = registry
                     /\ typeDict' = typeDict]_vars

\* an assignment has just been refused by a suffix descriptor while "s" is
\* hooked on int
C18_Witness ==
    /\ last.op = "write"
    /\ last.exc = "AttributeError" /\ last.msg = "read-only"
    /\ Installed("int", "s")

----------------------------------------------------------------------------
(* C19 *)

\* C19: with an unsupported backend selected, no registration call
\* returns, a literal call whose pair passes the duplicate and collision
\* checks raises the unsupported-backend ValueError, and so does an
\* unliteral of a recorded suffix; with no backend configured no call
\* raises that error.
C19_UnsupportedBackend ==
    [][/\ environ = "bogus" =>
              /\ last'.op \in HookOps => last'.exc # "none"
              /\ last'.op = "literal" =>
                     \A target \in ALLOWED_TARGETS, name \in Names, tr \in Transforms :
                         (/\ DescriptorCheck(registry, typeDict, _to_type(target), name)
                                 = "ok"
                          /\ Literal(<<target>>, name, tr.fn, tr.strict))
                             => (last'.exc = "ValueError"
                                 /\ last'.msg = "unsupported backend")
              /\ last'.op = "unliteral" =>
                     \A target \in ALLOWED_TARGETS, name \in Names :
                         (/\ is_hooked(registry, _to_type(target), name)
                          /\ Unliteral(target, name))
                             => (last'.exc = "ValueError"
                                 /\ last'.msg = "unsupported backend")
       /\ environ = "unset" => last'.msg # "unsupported backend"]_vars

\* an unliteral of a recorded suffix has just failed on the backend
C19_Witness ==
    /\ environ = "bogus"
    /\ last.op = "unliteral"
    /\ last.exc = "ValueError" /\ last.msg = "unsupported backend"

----------------------------------------------------------------------------
(* C20 *)

\* C20: an is_hooked query and a read of a suffix, whatever its outcome,
\* change neither the registry nor any attribute table, and
\* is_hooked(T, n) answers true exactly when n is recorded for T.
C20_QueriesChangeNothing ==
    [][/\ last'.op \in {"read", "is_hooked"} =>
              (registry' = registry /\ typeDict' = typeDict)
       /\ last'.op = "is_hooked" =>
              \A target \in ALLOWED_TARGETS, n \in Names :
                  IsHooked(target, n) =>
                      (last'.value = "True"
                          <=> Contains(registry[_to_type(target)], n))]_vars

\* a read has just failed on the strict-mode test while the suffix stays
\* hooked, and another read of the state fails on the exact-type test
C20_Witness ==
    /\ last.op = "read" /\ last.exc = "TypeError"
    /\ \E n \in Names :
           /\ Installed("int", n)
           /\ ~is_hooked(registry, "bool", n)
           /\ ReadAttr(typeDict, "bool", n, "LOAD_CONST")
                  = Outcome("AttributeError", "not defined", "-")

----------------------------------------------------------------------------
(* C21 *)

\* C21: in every reachable state, n is recorded for T in the registry if
\* and only if a suffix descriptor for n is installed on T.
C21_RegistryMatchesHooks ==
    \A T \in ALLOWED_TARGET_TYPES, n \in Names :
        is_hooked(registry, T, n) <=> typeDict[T][n].kind = "literal"

----------------------------------------------------------------------------
(* C22 *)

\* C22: a literal(T, name=n) call that fails on the unsupported backend
\* leaves the registry unchanged, is_hooked(T, n) is false after it, and
\* the same hook made with a supported backend then returns.
C22_FailedHookLeavesRegistry ==
    [][(last'.op = "literal" /\ last'.exc = "ValueError") =>
          \A target \in ALLOWED_TARGETS, name \in Names, tr \in Transforms :
              (/\ ~is_hooked(registry, _to_type(target), name)
               /\ Literal(<<target>>, name, tr.fn, tr.strict))
                  => /\ registry' = registry
                     /\ ~is_hooked(registry', _to_type(target), name)
                     /\ HookPairs(registry', typeDict',
                                  Pairs(<<_to_type(target)>>, <<Suffix(name, tr.fn)>>),
                                  1, tr.strict, "unset").exc = "none"]_vars

----------------------------------------------------------------------------
(* C23 *)

\* C23: in every reachable state the auxiliary descriptor for n sits on the
\* metatype if and only if n is hooked on the None type, and a call made
\* for other types only never installs or removes an auxiliary descriptor.
C23_AuxiliaryFollowsNone ==
    [][/\ \A n \in Names :
              typeDict'[MetaType][n].kind = "hack"
                  <=> is_hooked(registry', "NoneType", n)
       /\ (registry'["NoneType"] = registry["NoneType"])
              => typeDict'[MetaType] = typeDict[MetaType]]_vars

----------------------------------------------------------------------------
(* C24 *)

\* C24: when entry to a literally scope fails on a duplicate suffix or a
\* name collision, the body is not run and no pair hooked by that entry
\* remains hooked: the registry and the attribute tables of the target
\* types are as they were before the entry.
C24_FailedEntryRollsBack ==
    [][(last'.op = "literally" /\ last'.exc = "AttributeError") =>
          /\ scope'.pc = "idle"
          /\ \A T \in ALLOWED_TARGET_TYPES, n \in Names :
                 /\ Count(registry'[T], n) = Count(registry[T], n)
                 /\ typeDict'[T][n] = typeDict[T][n]]_vars

----------------------------------------------------------------------------
(* C25 *)

\* C25: after the normal exit of a literally scope (the backend being a
\* supported one) none of the scope's pairs is hooked, whether or not the
\* body removed some of them with unliteral.
C25_ExitUnhooksTheRest ==
    [][(last'.op = "exit" /\ environ = "unset") =>
          \A i \in DOMAIN ScopePairs(scope.types, scope.names) :
              ~is_hooked(registry', ScopePairs(scope.types, scope.names)[i].type,
                         ScopePairs(scope.types, scope.names)[i].name)]_vars

----------------------------------------------------------------------------
(* C26 *)

\* C26: while n is hooked on None, looking n up on a class outside the
\* allow-list that has no attribute n raises AttributeError, the outcome
\* the lookup had before the hook, and no exception of another kind.
C26_OutsideClassReportsAbsence ==
    \A n \in AllNames, site \in SiteOps :
        (/\ is_hooked(registry, "NoneType", n)
         /\ ReadClassAttr(registry, NativeDict, OutsideType, n, site).exc
                = "AttributeError")
            => ReadClassAttr(registry, typeDict, OutsideType, n, site).exc
                   = "AttributeError"

----------------------------------------------------------------------------
(* C27 *)

\* C27: a registration call that returns leaves every attribute that a
\* patched type (a target type, or the metatype) defines in its own
\* __dict__ as it was.
C27_NativeAttrsSurvive ==
    [][(last'.op \in HookOps /\ last'.exc = "none") =>
          \A T \in PatchedTypes, n \in AllNames :
              typeDict[T][n] = Native => typeDict'[T][n] = Native]_vars

----------------------------------------------------------------------------
(* C28 *)

----------------------------------------------------------------------------
(* C29 *)

\* the lookup of name on the class T can still find it elsewhere than in
\* T.__dict__: in a base class of T, or as a method of the metatype
ProvidedElsewhere(dict, T, name) ==
    \/ \E i \in 1..Len(Mro(T)) :
           Mro(T)[i] # T /\ dict[Mro(T)[i]][name].kind # "absent"
    \/ dict[MetaType][name].kind = "native"

\* C29 as stated: while n is hooked on T, looking n up on the class T
\* returns (None, the transform is not called and no call site is tested),
\* and once unliteral(T, n) has returned the same lookup raises
\* AttributeError.
C29_AbsentOnClassAfterUnliteral ==
    /\ \A T \in ALLOWED_TARGET_TYPES, n \in AllNames, site \in SiteOps :
           Installed(T, n) =>
               ReadClassAttr(registry, typeDict, T, n, site)
                   = Outcome("none", "-", "None")
    /\ (last.op = "unliteral" /\ last.exc = "none") =>
           \A site \in SiteOps :
               ReadClassAttr(registry, typeDict, last.T, last.n, site).exc
                   = "AttributeError"

\* C29 amended: the same, the lookup after unliteral(T, n) raising
\* AttributeError unless n is still provided by a base class of T (a native
\* attribute or a suffix hooked on the base class) or by the metatype.
C29_ClassLookupSucceeds ==
    /\ \A T \in ALLOWED_TARGET_TYPES, n \in AllNames, site \in SiteOps :
           Installed(T, n) =>
               ReadClassAttr(registry, typeDict, T, n, site)
                   = Outcome("none", "-", "None")
    /\ (last.op = "unliteral" /\ last.exc = "none") =>
           \A site \in SiteOps :
               ~ProvidedElsewhere(typeDict, last.T, last.n) =>
                   ReadClassAttr(registry, typeDict, last.T, last.n, site).exc
                       = "AttributeError"

\* a strict suffix is hooked on None and the lookup of its name on
\* NoneType, made from a site that is no literal, has just returned None
C29_Witness ==
    /\ last.op = "readclass" /\ last.exc = "none" /\ last.value = "None"
    /\ last.T = "NoneType"
    /\ Installed("NoneType", last.n)
    /\ typeDict["NoneType"][last.n].strict

----------------------------------------------------------------------------
(* C30 *)

\* C30: when n is hooked on several types, a read of n on a value of exact
\* type T made on a literal yields the transform registered for (T, n);
\* a registration for another type and the unhooking of another type leave
\* the reads of n on values of T as they were.
C30_OwnTransformPerType ==
    [][/\ \A T \in ALLOWED_TARGET_TYPES, n \in Names :
              Installed(T, n)' =>
                  /\ typeDict'[T][n].type = T
                  /\ \A site \in {"LOAD_CONST", "BUILD_MAP"} :
                         ReadAttr(typeDict', T, n, site)
                             = Outcome("none", "-", typeDict'[T][n].fn)
       /\ (last'.op \in HookOps /\ last'.exc = "none") =>
              /\ \A i \in DOMAIN CallPairs(last') :
                     typeDict'[CallPairs(last')[i].type][CallPairs(last')[i].name].fn
                         = CallPairs(last')[i].fn
              /\ \A T \in ALLOWED_TARGET_TYPES, n \in Names, site \in SiteOps :
                     Installed(T, n) =>
                         ReadAttr(typeDict', T, n, site)
                             = ReadAttr(typeDict, T, n, site)
       /\ (last'.op = "unliteral" /\ last'.exc = "none") =>
              \A T \in ALLOWED_TARGET_TYPES, n \in Names, site \in SiteOps :
                  (Installed(T, n) /\ <<T, n>> # <<last'.T, last'.n>>) =>
                      ReadAttr(typeDict', T, n, site)
                          = ReadAttr(typeDict, T, n, site)]_vars

\* the same name is hooked on int and on bool with different transforms,
\* the second of the two registrations having just returned
C30_Witness ==
    /\ HookReturned
    /\ \E n \in Names :
           /\ Installed("int", n)
           /\ Installed("bool", n)
           /\ typeDict["int"][n].fn # typeDict["bool"][n].fn
           /\ ReadAttr(typeDict, "bool", n, "LOAD_CONST").value
                  = typeDict["bool"][n].fn
====
